---- MODULE Spec2Model ----
(***************************************************************************)
(* Sputnik: the Bouncer (src/sputnik/bouncer.py), the web interface's      *)
(* request handlers (src/sputnik/handlers.py) and the Connection helpers   *)
(* that every session uses for its wire I/O (src/sputnik/connection.py).   *)
(*                                                                         *)
(* Everything runs on one asyncio event loop, so every callback (the       *)
(* constructor, a request handler, a protocol callback of a session) is    *)
(* one atomic action.  Each callback is written as an operator from the    *)
(* program state before it (a record b) to the program state after it, so  *)
(* that a handler that calls remove_network and then add_network is the    *)
(* composition of the two.  The record's field ops is the callback's       *)
(* output: the calls it made on its collaborators (the Datastore, the      *)
(* event loop, a transport, the HTTP response), in the order it made them. *)
(*                                                                         *)
(* The Network and Client sessions and the Datastore are modules of the    *)
(* repository whose code is not among the sources; their part is modelled  *)
(* from the session contract and the persistence adapter table.            *)
(*                                                                         *)
(* Text that the code takes apart (the "host:port" form field) is a        *)
(* sequence of one-character strings; every other text of the Bouncer is   *)
(* an opaque string.  In the Connection helpers a text is a sequence of     *)
(* Unicode code points and a byte string a sequence of numbers 0..255.     *)
(* The helpers are pure, so they have a specification of their own,        *)
(* FramingSpec, whose steps call them on inputs drawn from bounded sets.   *)
(*                                                                         *)
(* StoreSpec is the Bouncer with Redis up and the history of its           *)
(* add_network and remove_network calls, for the properties that relate    *)
(* the stored records to the calls made.                                   *)
(***************************************************************************)
EXTENDS Integers, Sequences, FiniteSets, TLC

VARIABLES
    constructed,  \* whether Bouncer.__init__ has run
    redisUp,      \* environment: whether the Redis instance answers the startup ping
    redis,        \* the Redis content: [password, networks (name -> stored credentials)]
    clients,      \* Bouncer.clients
    networks,     \* Bouncer.networks, a dict: a function whose DOMAIN is its key set
    datastore,    \* Bouncer.datastore: TRUE a Datastore, FALSE None
    sessions,     \* every Network protocol created by a dial, in order of creation
    removed,      \* history: the sessions in being whose name was since given to remove_network
    calls,        \* history, kept in StoreSpec: the names stored at startup, the last call on each name
    framed        \* the last call of a Connection helper: its arguments and what it did

bouncerVars == <<constructed, redisUp, redis, clients, networks, datastore, sessions, removed, calls>>

vars == <<bouncerVars, framed>>

----------------------------------------------------------------------------
(* Bounds *)

MaxSessions == 2    \* dials issued in one run
MaxBytes == 3       \* length of a byte string given to decode
MaxLen == 3         \* length of a line given to normalize
MaxParts == 2       \* number of arguments of a send

----------------------------------------------------------------------------
(* Values *)

NetworkNames == {"freenode", "efnet"}

\* The IRC clients that may connect to the listen server.
ClientHandles == {"client"}

NoPassword == "None"

EmptyDict == [k \in {} |-> 0]

\* One call on a collaborator: the Datastore, the event loop, a transport,
\* the request handler's response.
Op(op, network, session) == [op |-> op, network |-> network, session |-> session]

\* The program state a callback starts from; it has made no call yet.
Bouncer ==
    [redis |-> redis, clients |-> clients, networks |-> networks,
     datastore |-> datastore, sessions |-> sessions, ops |-> <<>>]

\* The program state a callback leaves.
Becomes(b) ==
    /\ redis' = b.redis
    /\ clients' = b.clients
    /\ networks' = b.networks
    /\ datastore' = b.datastore
    /\ sessions' = b.sessions

Call(b, op, network, session) == [b EXCEPT !.ops = Append(@, Op(op, network, session))]

\* dict[key] = value
DictSet(d, key, value) ==
    [k \in DOMAIN d \cup {key} |-> IF k = key THEN value ELSE d[k]]

\* dict.pop(key) / a delete that tolerates an absent key
DictDel(d, key) == [k \in DOMAIN d \ {key} |-> d[k]]

----------------------------------------------------------------------------
(* The Datastore: an upsert by network name, an idempotent delete, the     *)
(* bouncer password, a snapshot of the stored networks.                    *)

Datastore_add_network(b, credentials) ==
    [Call(b, "datastore.add_network", credentials.network, 0)
        EXCEPT !.redis.networks = DictSet(@, credentials.network, credentials)]

Datastore_remove_network(b, network) ==
    [Call(b, "datastore.remove_network", network, 0)
        EXCEPT !.redis.networks = DictDel(@, network)]

Datastore_get_password(b) == Call(b, "datastore.get_password", "", 0)

Datastore_set_password(b) ==
    [Call(b, "datastore.set_password", "", 0) EXCEPT !.redis.password = "generated"]

Datastore_get_networks(b) == Call(b, "datastore.get_networks", "", 0)

----------------------------------------------------------------------------
(* The event loop and the Network session *)

\* loop.create_connection(lambda: Network(self, **credentials), hostname, port),
\* scheduled with asyncio.async: the dial is issued, nothing is awaited.
\* The protocol it will build is the next entry of sessions.
create_connection(b, credentials) ==
    LET sid == Len(b.sessions) + 1
        session == [credentials |-> credentials,
                    connected |-> FALSE,
                    transport |-> "dialing"]
    IN [Call(b, "create_connection", credentials.network, sid)
            EXCEPT !.sessions = Append(@, session)]

\* transport.close() of session sid: an open transport starts closing;
\* closing a transport that is closing, broken or closed does nothing more.
transport_close(b, sid) ==
    [Call(b, "transport.close", b.sessions[sid].credentials.network, sid)
        EXCEPT !.sessions[sid].transport = IF @ = "open" THEN "closing" ELSE @]

----------------------------------------------------------------------------
(* Bouncer.add_network *)

\* Variant: the dial is issued before the credentials are stored.
add_network_DialsFirst(b, network, hostname, port, nickname, username, realname, password, usermode) ==
    LET credentials == [network  |-> network,
                        nickname |-> nickname,
                        username |-> username,
                        realname |-> realname,
                        hostname |-> hostname,
                        port     |-> port,
                        password |-> password]
        b0 == Call(b, "add_network", network, 0)
        b1 == create_connection(b0, credentials)
    IN IF b1.datastore THEN Datastore_add_network(b1, credentials) ELSE b1

\* Variant: a name that is registered or being dialed is not added again.
add_network_RejectsDuplicate(b, network, hostname, port, nickname, username, realname, password, usermode) ==
    LET credentials == [network  |-> network,
                        nickname |-> nickname,
                        username |-> username,
                        realname |-> realname,
                        hostname |-> hostname,
                        port     |-> port,
                        password |-> password]
        b0 == Call(b, "add_network", network, 0)
        b1 == IF b0.datastore THEN Datastore_add_network(b0, credentials) ELSE b0
    IN IF \/ network \in DOMAIN b.networks
          \/ \E sid \in 1..Len(b.sessions) :
                 /\ b.sessions[sid].transport = "dialing"
                 /\ b.sessions[sid].credentials.network = network
       THEN b0
       ELSE create_connection(b1, credentials)

\* Variant: the call enters the dialed session in the registry itself.
add_network_Registers(b, network, hostname, port, nickname, username, realname, password, usermode) ==
    LET credentials == [network  |-> network,
                        nickname |-> nickname,
                        username |-> username,
                        realname |-> realname,
                        hostname |-> hostname,
                        port     |-> port,
                        password |-> password]
        b0 == Call(b, "add_network", network, 0)
        b1 == IF b0.datastore THEN Datastore_add_network(b0, credentials) ELSE b0
        b2 == create_connection(b1, credentials)
    IN [b2 EXCEPT !.networks = DictSet(@, network, Len(b2.sessions))]

add_network(b, network, hostname, port, nickname, username, realname, password, usermode) ==
    LET credentials == [network  |-> network,
                        nickname |-> nickname,
                        username |-> username,
                        realname |-> realname,
                        hostname |-> hostname,
                        port     |-> port,
                        password |-> password]
        b0 == Call(b, "add_network", network, 0)
        b1 == IF b0.datastore THEN Datastore_add_network(b0, credentials) ELSE b0
    IN create_connection(b1, credentials)

(* Bouncer.remove_network *)

\* Variant: the Datastore record is left in place.
remove_network_KeepsRecord(b, network) ==
    LET b0 == Call(b, "remove_network", network, 0)
    IN IF network \in DOMAIN b0.networks
       THEN LET sid == b0.networks[network]
            IN transport_close([b0 EXCEPT !.sessions[sid].connected = FALSE], sid)
       ELSE b0

\* Variant: the entry is evicted from the registry once its transport is closed.
remove_network_Evicts(b, network) ==
    LET b0 == Call(b, "remove_network", network, 0)
        b1 == IF network \in DOMAIN b0.networks
              THEN LET sid == b0.networks[network]
                   IN [transport_close([b0 EXCEPT !.sessions[sid].connected = FALSE], sid)
                          EXCEPT !.networks = DictDel(@, network)]
              ELSE b0
    IN IF b1.datastore THEN Datastore_remove_network(b1, network) ELSE b1

\* Variant: the registry is indexed without the membership test.
remove_network_Unguarded(b, network) ==
    LET b0 == Call(b, "remove_network", network, 0)
    IN IF network \notin DOMAIN b0.networks
       THEN Call(b0, "KeyError", network, 0)
       ELSE LET sid == b0.networks[network]
                b1 == transport_close([b0 EXCEPT !.sessions[sid].connected = FALSE], sid)
            IN IF b1.datastore THEN Datastore_remove_network(b1, network) ELSE b1

\* Variant: every session is disconnected, not only the one named.
remove_network_ClosesAll(b, network) ==
    LET b0 == Call(b, "remove_network", network, 0)
        RECURSIVE CloseFrom(_, _)
        CloseFrom(bb, sid) ==
            IF sid > Len(bb.sessions) THEN bb
            ELSE IF bb.sessions[sid].transport = "open"
                 THEN CloseFrom(transport_close(
                          [bb EXCEPT !.sessions[sid].connected = FALSE], sid), sid + 1)
                 ELSE CloseFrom(bb, sid + 1)
        b1 == IF network \in DOMAIN b0.networks THEN CloseFrom(b0, 1) ELSE b0
    IN IF b1.datastore THEN Datastore_remove_network(b1, network) ELSE b1

\* Variant: the record is deleted only when the name is registered.
remove_network_ForgetsOnlyRegistered(b, network) ==
    LET b0 == Call(b, "remove_network", network, 0)
    IN IF network \in DOMAIN b0.networks
       THEN LET sid == b0.networks[network]
                b1 == transport_close([b0 EXCEPT !.sessions[sid].connected = FALSE], sid)
            IN IF b1.datastore THEN Datastore_remove_network(b1, network) ELSE b1
       ELSE b0

remove_network(b, network) ==
    LET b0 == Call(b, "remove_network", network, 0)
        b1 == IF network \in DOMAIN b0.networks
              THEN LET sid == b0.networks[network]
                   IN transport_close([b0 EXCEPT !.sessions[sid].connected = FALSE], sid)
              ELSE b0
    IN IF b1.datastore THEN Datastore_remove_network(b1, network) ELSE b1

----------------------------------------------------------------------------
(* Bouncer.__init__ *)

\* The orders in which a dict holding the keys S can be iterated.
Orders(S) ==
    {order \in [1..Cardinality(S) -> S] :
        \A i, j \in 1..Cardinality(S) : order[i] = order[j] => i = j}

\* Variant: the loop is left after the first record.
Reload_StopsAfterFirst(b, history, order) ==
    IF order = <<>> THEN b
    ELSE LET credentials == history[Head(order)]
         IN add_network(b, credentials.network, credentials.hostname,
                        credentials.port, credentials.nickname,
                        credentials.username, credentials.realname,
                        credentials.password, 0)

\* for credentials in history.values(): self.add_network(**credentials)
\* over the records still to visit; usermode is not among the stored keys,
\* so add_network takes its default.
RECURSIVE Reload(_, _, _)
Reload(b, history, order) ==
    IF order = <<>> THEN b
    ELSE LET credentials == history[Head(order)]
         IN Reload(add_network(b, credentials.network, credentials.hostname,
                               credentials.port, credentials.nickname,
                               credentials.username, credentials.realname,
                               credentials.password, 0),
                   history, Tail(order))

\* Variant: the except branch does not reset self.datastore.
Bouncer_init_KeepsDatastore(b, up, order) ==
    LET b0 == Call([b EXCEPT !.clients = {}, !.networks = EmptyDict],
                   "database.ping", "", 0)
        b1 == [b0 EXCEPT !.datastore = TRUE]
        b2 == Datastore_get_password(b1)
        b3 == IF b2.redis.password = NoPassword
              THEN Datastore_set_password(b2) ELSE b2
        b4 == Datastore_get_networks(b3)
    IN Reload(b4, b4.redis.networks, order)

\* Variant: the password is generated without asking for the stored one.
Bouncer_init_AlwaysSetsPassword(b, up, order) ==
    LET b0 == Call([b EXCEPT !.clients = {}, !.networks = EmptyDict],
                   "database.ping", "", 0)
        b1 == [b0 EXCEPT !.datastore = up]
    IN IF ~b1.datastore THEN b1
       ELSE LET b3 == Datastore_set_password(Datastore_get_password(b1))
                b4 == Datastore_get_networks(b3)
            IN Reload(b4, b4.redis.networks, order)

\* up: whether database.ping() answers (no redis.ConnectionError);
\* order: the iteration order of history.values().
Bouncer_init(b, up, order) ==
    LET b0 == Call([b EXCEPT !.clients = {}, !.networks = EmptyDict],
                   "database.ping", "", 0)
        b1 == [b0 EXCEPT !.datastore = up]
    IN IF ~b1.datastore THEN b1
       ELSE LET b2 == Datastore_get_password(b1)
                b3 == IF b2.redis.password = NoPassword
                      THEN Datastore_set_password(b2) ELSE b2
                b4 == Datastore_get_networks(b3)
            IN Reload(b4, b4.redis.networks, order)

----------------------------------------------------------------------------
(* The request handlers *)

\* str.split(sep) for a one-character separator: the pieces between the
\* separators, empty pieces included.
RECURSIVE Split(_, _)
Split(text, sep) ==
    IF text = <<>> THEN << <<>> >>
    ELSE LET rest == Split(Tail(text), sep)
         IN IF Head(text) = sep
            THEN << <<>> >> \o rest
            ELSE << <<Head(text)>> \o Head(rest) >> \o Tail(rest)

FormFields == {"networkname", "networkaddress", "nickname", "ident", "password"}

\* The handler's get_argument calls and "hostname, port = network_address.split(':')":
\* "ok" when all of them return, else the exception that ends the handler.
ParseForm(form) ==
    IF ~(FormFields \subseteq DOMAIN form) THEN "MissingArgumentError"
    ELSE IF Len(Split(form.networkaddress, ":")) # 2 THEN "ValueError"
    ELSE "ok"

\* self.bouncer.add_network(network=..., hostname=..., port=..., nickname=...,
\*                          username=ident, realname=ident, password=...)
AddFromForm(b, form) ==
    LET parts == Split(form.networkaddress, ":")
    IN add_network(b, form.networkname, parts[1], parts[2], form.nickname,
                   form.ident, form.ident, form.password, 0)

\* EditHandler.post
EditHandler_post(b, network_name, form) ==
    LET b1 == remove_network(b, network_name)
    IN IF ParseForm(form) # "ok" THEN Call(b1, ParseForm(form), "", 0)
       ELSE Call(AddFromForm(b1, form), "redirect", "", 0)

\* DeleteHandler.get
DeleteHandler_get(b, network_name) ==
    Call(remove_network(b, network_name), "redirect", "", 0)

\* Variant: the guard also looks for a dial of the name that is in flight.
AddHandler_post_ChecksDials(b, form) ==
    IF ParseForm(form) # "ok" THEN Call(b, ParseForm(form), "", 0)
    ELSE LET dialing == \E sid \in DOMAIN b.sessions :
                            /\ b.sessions[sid].transport = "dialing"
                            /\ b.sessions[sid].credentials.network = form.networkname
             b1 == IF form.networkname \notin DOMAIN b.networks /\ ~dialing
                   THEN AddFromForm(b, form) ELSE b
         IN Call(b1, "redirect", "", 0)

\* AddHandler.post
AddHandler_post(b, form) ==
    IF ParseForm(form) # "ok" THEN Call(b, ParseForm(form), "", 0)
    ELSE LET b1 == IF form.networkname \notin DOMAIN b.networks
                   THEN AddFromForm(b, form) ELSE b
         IN Call(b1, "redirect", "", 0)

----------------------------------------------------------------------------
(* The session contract: a Network registers itself in Bouncer.networks on *)
(* establishment and deregisters itself on teardown; a Client does the     *)
(* same in Bouncer.clients.                                                *)

\* The dial of session sid succeeded: the protocol gets its transport.
Network_connection_made(b, sid) ==
    [b EXCEPT !.sessions[sid].transport = "open",
              !.sessions[sid].connected = TRUE,
              !.networks = DictSet(@, b.sessions[sid].credentials.network, sid)]

\* A session that is over (its dial failed, or it was torn down) is referenced
\* by nothing any more: its entry keeps only how it ended.
Released(how) ==
    [credentials |-> [network |-> "", nickname |-> "", username |-> "",
                      realname |-> "", hostname |-> <<>>, port |-> <<>>,
                      password |-> ""],
     connected |-> FALSE,
     transport |-> how]

\* The dial of session sid failed: no protocol callback runs.
dial_failed(b, sid) == [b EXCEPT !.sessions[sid] = Released("failed")]

\* The peer or the network broke the connection of session sid.
transport_error(b, sid) == [b EXCEPT !.sessions[sid].transport = "broken"]

\* Teardown of session sid: it deregisters itself, and only itself.
Network_connection_lost(b, sid) ==
    LET network == b.sessions[sid].credentials.network
    IN [b EXCEPT !.sessions[sid] = Released("closed"),
                 !.networks = IF network \in DOMAIN @ /\ @[network] = sid
                              THEN DictDel(@, network) ELSE @]

Client_connection_made(b, client) == [b EXCEPT !.clients = @ \cup {client}]

Client_connection_lost(b, client) == [b EXCEPT !.clients = @ \ {client}]

----------------------------------------------------------------------------
(* Connection: decode, normalize, send *)

IsContinuation(byte) == 128 <= byte /\ byte <= 191

\* The length of the well-formed UTF-8 sequence that bytes starts with, 0 when
\* it starts with none (overlong forms, surrogates and values above U+10FFFF
\* are ill-formed, as for Python's strict decoder).
Utf8Length(bytes) ==
    LET b0 == bytes[1]
        n == Len(bytes)
    IN IF b0 < 128 THEN 1
       ELSE IF /\ 194 <= b0 /\ b0 <= 223
               /\ n >= 2 /\ IsContinuation(bytes[2])
            THEN 2
       ELSE IF /\ 224 <= b0 /\ b0 <= 239
               /\ n >= 3 /\ IsContinuation(bytes[2]) /\ IsContinuation(bytes[3])
               /\ b0 = 224 => bytes[2] >= 160
               /\ b0 = 237 => bytes[2] <= 159
            THEN 3
       ELSE IF /\ 240 <= b0 /\ b0 <= 244
               /\ n >= 4 /\ IsContinuation(bytes[2]) /\ IsContinuation(bytes[3])
               /\ IsContinuation(bytes[4])
               /\ b0 = 240 => bytes[2] >= 144
               /\ b0 = 244 => bytes[2] <= 143
            THEN 4
       ELSE 0

\* The code point that the well-formed sequence of n bytes at the head of
\* bytes encodes.
Utf8CodePoint(bytes, n) ==
    IF n = 1 THEN bytes[1]
    ELSE IF n = 2 THEN (bytes[1] - 192) * 64 + (bytes[2] - 128)
    ELSE IF n = 3 THEN (bytes[1] - 224) * 4096 + (bytes[2] - 128) * 64 + (bytes[3] - 128)
    ELSE (bytes[1] - 240) * 262144 + (bytes[2] - 128) * 4096
         + (bytes[3] - 128) * 64 + (bytes[4] - 128)

\* bytes.decode(): [ok, text]; ok is false where Python raises UnicodeDecodeError.
RECURSIVE Utf8Decode(_)
Utf8Decode(bytes) ==
    IF bytes = <<>> THEN [ok |-> TRUE, text |-> <<>>]
    ELSE LET n == Utf8Length(bytes)
         IN IF n = 0 THEN [ok |-> FALSE, text |-> <<>>]
            ELSE LET rest == Utf8Decode(SubSeq(bytes, n + 1, Len(bytes)))
                 IN [ok |-> rest.ok,
                     text |-> IF rest.ok THEN <<Utf8CodePoint(bytes, n)>> \o rest.text
                              ELSE <<>>]

\* bytes.decode("latin1"): byte n is the character U+00n.
Latin1Decode(bytes) == [i \in 1..Len(bytes) |-> bytes[i]]

\* str.encode() of one code point (a Unicode scalar value).
Utf8EncodeChar(cp) ==
    IF cp < 128 THEN <<cp>>
    ELSE IF cp < 2048 THEN <<192 + (cp \div 64), 128 + (cp % 64)>>
    ELSE IF cp < 65536
         THEN <<224 + (cp \div 4096), 128 + ((cp \div 64) % 64), 128 + (cp % 64)>>
    ELSE <<240 + (cp \div 262144), 128 + ((cp \div 4096) % 64),
           128 + ((cp \div 64) % 64), 128 + (cp % 64)>>

\* str.encode()
RECURSIVE Utf8Encode(_)
Utf8Encode(text) ==
    IF text = <<>> THEN <<>>
    ELSE Utf8EncodeChar(Head(text)) \o Utf8Encode(Tail(text))

\* Variant: no fallback, the UnicodeDecodeError reaches the caller.
decode_NoFallback(line) ==
    LET utf8 == Utf8Decode(line)
    IN [raised |-> ~utf8.ok, text |-> utf8.text]

\* Variant: the fallback drops the bytes that are not ASCII.
decode_FallbackDropsBytes(line) ==
    LET utf8 == Utf8Decode(line)
    IN IF utf8.ok THEN [raised |-> FALSE, text |-> utf8.text]
       ELSE [raised |-> FALSE, text |-> SelectSeq(line, LAMBDA byte : byte < 128)]

\* Connection.decode: what it returns, or that it raised.
decode(line) ==
    LET utf8 == Utf8Decode(line)
    IN IF utf8.ok THEN [raised |-> FALSE, text |-> utf8.text]
       ELSE [raised |-> FALSE, text |-> Latin1Decode(line)]

\* str.endswith
EndsWith(line, ending) ==
    /\ Len(ending) <= Len(line)
    /\ SubSeq(line, Len(line) - Len(ending) + 1, Len(line)) = ending

\* Variant: the ending is appended without the test.
normalize_AlwaysAppends(line, ending) == line \o ending

\* Connection.normalize
normalize(line, ending) ==
    IF ~EndsWith(line, ending) THEN line \o ending ELSE line

\* The default of normalize's ending: "\r\n".
CRLF == <<13, 10>>

\* " ".join(args)
RECURSIVE Join(_)
Join(args) ==
    IF args = <<>> THEN <<>>
    ELSE IF Len(args) = 1 THEN args[1]
    ELSE args[1] \o <<32>> \o Join(Tail(args))

\* Variant: every argument is written on its own.
RECURSIVE send_WritesEachPart(_, _)
send_WritesEachPart(transport, args) ==
    IF args = <<>> THEN transport
    ELSE send_WritesEachPart(Append(transport, Utf8Encode(normalize(Head(args), CRLF))),
                             Tail(args))

\* Variant: the message is written as it was joined.
send_SkipsNormalize(transport, args) == Append(transport, Utf8Encode(Join(args)))

\* Connection.send: the transport (the byte strings written to it so far)
\* after the call.
send(transport, args) ==
    LET message == normalize(Join(args), CRLF)
    IN Append(transport, Utf8Encode(message))

----------------------------------------------------------------------------
(* Inputs *)

\* The network names and hostnames the calls and the forms are drawn from.
Targets == {<<"freenode", <<"a">> >>, <<"freenode", <<"b">> >>, <<"efnet", <<"b">> >>}

StoredCredentials(network, hostname) ==
    [network  |-> network,
     nickname |-> "alice",
     username |-> "alice",
     realname |-> "alice",
     hostname |-> hostname,
     port     |-> <<"7">>,
     password |-> "None"]

\* What an earlier run may have left in Redis, and whether Redis answers.
InitialNetworks ==
    { EmptyDict,
      [n \in {"freenode"} |-> StoredCredentials(n, <<"a">>)],
      [n \in NetworkNames |-> StoredCredentials(n, <<"b">>)] }

InitialPasswords == {NoPassword, "stored"}

Environments ==
    {e \in [up : BOOLEAN, password : InitialPasswords, networks : InitialNetworks] :
        ~e.up => e.password = NoPassword /\ DOMAIN e.networks = NetworkNames}

\* The arguments Bouncer.add_network may be called with.
Credentials ==
    {c \in [network  : NetworkNames,
            hostname : {<<"a">>, <<"b">>},
            port     : {<<"7">>},
            nickname : {"alice"},
            username : {"alice"},
            realname : {"alice"},
            password : {"None"},
            usermode : {0, 8}] : <<c.network, c.hostname>> \in Targets}

Form(networkname, networkaddress) ==
    [networkname    |-> networkname,
     networkaddress |-> networkaddress,
     nickname       |-> "alice",
     ident          |-> "alice",
     password       |-> "None"]

\* The forms a browser posts: well-formed ones, two whose address is not
\* "host:port", and one without its password field.
Forms ==
    {Form(t[1], t[2] \o <<":", "7">>) : t \in Targets}
    \cup {Form("freenode", <<"a">>), Form("efnet", <<"b", ":", "7", ":", "7">>)}
    \cup {[f \in FormFields \ {"password"} |-> Form("freenode", <<"a", ":", "7">>)[f]]}

Sids == 1..Len(sessions)

\* Sequences over S of length at most n.
SeqsUpTo(S, n) == UNION {[1..k -> S] : k \in 0..n}

\* Bytes a peer may send: ASCII, the UTF-8 form of U+00E9 (195 169), and 233,
\* which is U+00E9 in Latin-1 and the head of a three-byte sequence in UTF-8.
ByteStrings == SeqsUpTo({10, 13, 97, 169, 195, 233}, MaxBytes)

\* Lines and endings given to normalize.
Lines == SeqsUpTo({10, 13, 97}, MaxLen)

Endings == {CRLF, <<10>>, <<>>}

\* Arguments given to send: plain, not ASCII, ending with the terminator,
\* with a terminator inside.
Fragments == {<<97>>, <<233>>, <<97, 13, 10>>, <<13, 10, 97>>}

Arguments == SeqsUpTo(Fragments, MaxParts)

\* Bouncer.add_network called with the credentials c.
AddNetwork(b, c) ==
    add_network(b, c.network, c.hostname, c.port, c.nickname,
                c.username, c.realname, c.password, c.usermode)

----------------------------------------------------------------------------
(* The callbacks the event loop runs *)

Fits(b) == Len(b.sessions) <= MaxSessions

\* The calls of b.ops that are op(network).
CallsOf(b, op, network) ==
    {i \in DOMAIN b.ops : b.ops[i].op = op /\ b.ops[i].network = network}

InBeing(b, sid) == b.sessions[sid].transport \in {"dialing", "open", "closing", "broken"}

\* The sessions that existed when the callback started, are still in being
\* after it, and whose name was given to remove_network before or in it.
Removed(b) ==
    {sid \in Sids :
        /\ InBeing(b, sid)
        /\ \/ sid \in removed
           \/ CallsOf(b, "remove_network", sessions[sid].credentials.network) # {}}

\* The last of add_network and remove_network that was called on each name,
\* after the callback that leaves b.
Called(b) ==
    [calls EXCEPT !.last =
        [n \in NetworkNames |->
            LET made == CallsOf(b, "add_network", n) \cup CallsOf(b, "remove_network", n)
                final == CHOOSE i \in made : \A j \in made : j <= i
            IN IF made = {} \/ ~calls.kept THEN calls.last[n]
               ELSE IF b.ops[final].op = "add_network" THEN "add" ELSE "remove"]]

Construct ==
    /\ ~constructed
    /\ \E order \in Orders(DOMAIN redis.networks) :
           LET b == Bouncer_init(Bouncer, redisUp, order)
           IN /\ Becomes(b)
              /\ calls' = Called(b)
    /\ constructed' = TRUE
    /\ UNCHANGED <<redisUp, removed, framed>>

Run(b) ==
    /\ Fits(b)
    /\ Becomes(b)
    /\ removed' = Removed(b)
    /\ calls' = Called(b)
    /\ UNCHANGED <<constructed, redisUp, framed>>

AddPost ==
    /\ constructed
    /\ \E form \in Forms : Run(AddHandler_post(Bouncer, form))

EditPost ==
    /\ constructed
    /\ \E n \in NetworkNames, form \in Forms :
           Run(EditHandler_post(Bouncer, n, form))

DeleteGet ==
    /\ constructed
    /\ \E n \in NetworkNames : Run(DeleteHandler_get(Bouncer, n))

ConnectionMade ==
    /\ constructed
    /\ \E sid \in Sids :
           /\ sessions[sid].transport = "dialing"
           /\ Run(Network_connection_made(Bouncer, sid))

DialFailed ==
    /\ constructed
    /\ \E sid \in Sids :
           /\ sessions[sid].transport = "dialing"
           /\ Run(dial_failed(Bouncer, sid))

TransportError ==
    /\ constructed
    /\ \E sid \in Sids :
           /\ sessions[sid].transport = "open"
           /\ Run(transport_error(Bouncer, sid))

ConnectionLost ==
    /\ constructed
    /\ \E sid \in Sids :
           /\ sessions[sid].transport \in {"closing", "broken"}
           /\ Run(Network_connection_lost(Bouncer, sid))

ClientConnect ==
    /\ constructed
    /\ \E client \in ClientHandles \ clients :
           Run(Client_connection_made(Bouncer, client))

ClientDisconnect ==
    /\ constructed
    /\ \E client \in clients : Run(Client_connection_lost(Bouncer, client))

\* A session decodes the bytes it received.
Decode ==
    /\ \E line \in ByteStrings :
           framed' = [op |-> "decode", line |-> line, result |-> decode(line)]
    /\ UNCHANGED bouncerVars

\* A session normalizes a line.
Normalize ==
    /\ \E line \in Lines, ending \in Endings :
           framed' = [op |-> "normalize", line |-> line, ending |-> ending,
                      result |-> normalize(line, ending)]
    /\ UNCHANGED bouncerVars

\* A session sends a message: transport is what the call wrote to a
\* transport nothing had been written to.
Send ==
    /\ \E args \in Arguments :
           framed' = [op |-> "send", args |-> args, transport |-> send(<<>>, args)]
    /\ UNCHANGED bouncerVars

----------------------------------------------------------------------------

NoCall == [op |-> "none"]

\* No history of the calls is kept.
NoCalls == [kept |-> FALSE, snapshot |-> {}, last |-> [n \in NetworkNames |-> "none"]]

Init ==
    /\ constructed = FALSE
    /\ \E e \in Environments :
           /\ redisUp = e.up
           /\ redis = [password |-> e.password, networks |-> e.networks]
    /\ clients = {}
    /\ networks = EmptyDict
    /\ datastore = FALSE
    /\ sessions = <<>>
    /\ removed = {}
    /\ calls = NoCalls
    /\ framed = NoCall

Next ==
    \/ Construct
    \/ AddPost
    \/ EditPost
    \/ DeleteGet
    \/ ConnectionMade
    \/ DialFailed
    \/ TransportError
    \/ ConnectionLost
    \/ ClientConnect
    \/ ClientDisconnect

Spec == Init /\ [][Next]_vars

\* The Bouncer and its Datastore, with the history of the calls: Redis is up
\* and holds a password, and no client connects.
StoreInit ==
    /\ constructed = FALSE
    /\ redisUp = TRUE
    /\ \E stored \in InitialNetworks :
           /\ redis = [password |-> "stored", networks |-> stored]
           /\ calls = [kept |-> TRUE, snapshot |-> DOMAIN stored,
                       last |-> [n \in NetworkNames |-> "none"]]
    /\ clients = {}
    /\ networks = EmptyDict
    /\ datastore = FALSE
    /\ sessions = <<>>
    /\ removed = {}
    /\ framed = NoCall

StoreNext ==
    \/ Construct
    \/ AddPost
    \/ EditPost
    \/ DeleteGet
    \/ ConnectionMade
    \/ DialFailed
    \/ TransportError
    \/ ConnectionLost

StoreSpec == StoreInit /\ [][StoreNext]_vars

\* The Connection helpers on their own: no Bouncer is constructed.
FramingInit ==
    /\ constructed = FALSE
    /\ redisUp = FALSE
    /\ redis = [password |-> NoPassword, networks |-> EmptyDict]
    /\ clients = {}
    /\ networks = EmptyDict
    /\ datastore = FALSE
    /\ sessions = <<>>
    /\ removed = {}
    /\ calls = NoCalls
    /\ framed = NoCall

FramingNext ==
    \/ Decode
    \/ Normalize
    \/ Send

FramingSpec == FramingInit /\ [][FramingNext]_vars

----------------------------------------------------------------------------
(* Properties *)

NameOf(sid) == sessions[sid].credentials.network

\* A live session: its dial completed and its transport is open.
Live(sid) == sessions[sid].transport = "open"

\* The number of calls op(network) a callback made.
Count(b, op, network) == Cardinality(CallsOf(b, op, network))

\* C1: in every reachable state no two live network sessions share a
\* network name.
C1_NoTwoLiveSessionsShareName ==
    \A s1, s2 \in Sids :
        (s1 # s2 /\ Live(s1) /\ Live(s2)) => NameOf(s1) # NameOf(s2)

\* C2 as stated: once remove_network was called with the name of a session
\* dialed before, that session's transport is not open, whenever its dial
\* completes, and the call leaves no record of the name in the Datastore.
C2_RemoveClosesTheDialedSession ==
    /\ \A sid \in removed : ~Live(sid)
    /\ constructed /\ datastore =>
           \A n \in NetworkNames :
               n \notin DOMAIN remove_network(Bouncer, n).redis.networks

\* C2 amended: remove_network(n) leaves no record of n in the Datastore and
\* closes the transport of the session that is the registry's entry for n;
\* every other session named n (its dial still in flight, or displaced from
\* the registry by a later session of that name) is left as it is.
C2_RemoveClosesTheRegisteredSession ==
    constructed =>
        \A n \in NetworkNames :
            LET b == remove_network(Bouncer, n)
            IN /\ b.datastore => n \notin DOMAIN b.redis.networks
               /\ \A sid \in Sids :
                      NameOf(sid) = n =>
                          IF n \in DOMAIN networks /\ networks[n] = sid
                          THEN b.sessions[sid].transport \in {"closing", "broken"}
                          ELSE b.sessions[sid] = sessions[sid]

\* C3: remove_network(name), name a key of the registry, sets that session's
\* connected flag to false and closes its transport exactly once, and leaves
\* every other session's flag and transport as they were.
C3_RemoveDisconnectsOnlyTheNamedSession ==
    constructed =>
        \A n \in DOMAIN networks :
            LET b == remove_network(Bouncer, n)
                sid == networks[n]
                closes == {i \in DOMAIN b.ops : b.ops[i].op = "transport.close"}
            IN /\ b.sessions[sid].connected = FALSE
               /\ b.sessions[sid].transport \in {"closing", "broken"}
               /\ Cardinality(closes) = 1
               /\ \A i \in closes : b.ops[i].session = sid
               /\ \A other \in Sids \ {sid} : b.sessions[other] = sessions[other]

\* C3 witness: of two registered sessions one was removed (flag false,
\* transport closing) and the other is still connected and open.
C3_Witness ==
    \E n, m \in DOMAIN networks :
        /\ n # m
        /\ sessions[networks[n]].transport = "closing"
        /\ sessions[networks[n]].connected = FALSE
        /\ sessions[networks[m]].transport = "open"
        /\ sessions[networks[m]].connected = TRUE

\* C4: remove_network(name) never changes the key set of the registry (a key
\* stays, with connected = false), and a key leaves the registry only in the
\* teardown of the session registered under it.
C4_RemoveKeepsTheKeySet ==
    [][/\ constructed =>
              \A n \in NetworkNames :
                  LET b == remove_network(Bouncer, n)
                  IN /\ b.networks = networks
                     /\ n \in DOMAIN networks => ~b.sessions[b.networks[n]].connected
       /\ \A k \in DOMAIN networks \ DOMAIN networks' :
              /\ sessions[networks[k]].transport \in {"closing", "broken"}
              /\ sessions'[networks[k]].transport = "closed"]_vars

\* C4 witness: a name given to remove_network is still a key of the registry,
\* its session disconnected, while its Datastore record is gone.
C4_Witness ==
    \E n \in DOMAIN networks :
        /\ networks[n] \in removed
        /\ sessions[networks[n]].connected = FALSE
        /\ sessions[networks[n]].transport = "closing"
        /\ datastore
        /\ n \notin DOMAIN redis.networks

Exceptions == {"KeyError", "ValueError", "MissingArgumentError"}

Raises(b) == \E i \in DOMAIN b.ops : b.ops[i].op \in Exceptions

\* C5: remove_network(name), name no key of the registry, does not raise,
\* closes no transport, leaves registry and sessions unchanged and, with a
\* Datastore, issues exactly one Datastore removal, for name.
C5_RemoveOfUnknownName ==
    constructed =>
        \A n \in NetworkNames \ DOMAIN networks :
            LET b == remove_network(Bouncer, n)
                removals == {i \in DOMAIN b.ops : b.ops[i].op = "datastore.remove_network"}
            IN /\ ~Raises(b)
               /\ \A i \in DOMAIN b.ops : b.ops[i].op # "transport.close"
               /\ b.networks = networks
               /\ b.sessions = sessions
               /\ datastore =>
                      /\ Cardinality(removals) = 1
                      /\ \A i \in removals : b.ops[i].network = n
                      /\ n \notin DOMAIN b.redis.networks

\* C5 witness: remove_network was called for a name that was no key of the
\* registry (its dial still in flight): the record is gone, the dial goes
\* on, and the open session of the other name was not touched.
C5_Witness ==
    \E sid \in removed :
        /\ sessions[sid].transport = "dialing"
        /\ NameOf(sid) \notin DOMAIN networks
        /\ datastore
        /\ NameOf(sid) \notin DOMAIN redis.networks
        /\ \E other \in Sids : Live(other) /\ sessions[other].connected

\* In the calls a callback made, every dial directly follows the Datastore
\* write of the same name.
WriteBeforeDial(b) ==
    \A j \in DOMAIN b.ops :
        b.ops[j].op = "create_connection" =>
            /\ j > 1
            /\ b.ops[j - 1] = Op("datastore.add_network", b.ops[j].network, 0)

\* C6: with a Datastore, every add_network call writes the credentials to
\* the Datastore before it issues the dial: called directly, by the
\* constructor or by a request handler.
C6_WriteBeforeDial ==
    /\ constructed /\ datastore =>
           /\ \A c \in Credentials :
                  LET b == AddNetwork(Bouncer, c)
                  IN /\ WriteBeforeDial(b)
                     /\ Count(b, "datastore.add_network", c.network) = 1
                     /\ Count(b, "create_connection", c.network) = 1
                     /\ b.redis.networks[c.network] = b.sessions[Len(b.sessions)].credentials
           /\ \A form \in Forms : WriteBeforeDial(AddHandler_post(Bouncer, form))
           /\ \A n \in NetworkNames, form \in Forms :
                  WriteBeforeDial(EditHandler_post(Bouncer, n, form))
    /\ ~constructed /\ redisUp =>
           \A order \in Orders(DOMAIN redis.networks) :
               WriteBeforeDial(Bouncer_init(Bouncer, TRUE, order))

\* C6 witness: add_network ran with a Datastore: a dial is in flight whose
\* credentials are the stored record of its name.
C6_Witness ==
    /\ datastore
    /\ \E sid \in Sids :
           /\ sessions[sid].transport = "dialing"
           /\ NameOf(sid) \in DOMAIN redis.networks
           /\ redis.networks[NameOf(sid)] = sessions[sid].credentials

\* The session add_network(c) dials: the credentials it builds, no transport yet.
Dialed(c) ==
    [credentials |-> [network  |-> c.network,
                      nickname |-> c.nickname,
                      username |-> c.username,
                      realname |-> c.realname,
                      hostname |-> c.hostname,
                      port     |-> c.port,
                      password |-> c.password],
     connected |-> FALSE,
     transport |-> "dialing"]

\* C7: add_network makes no duplicate check: called for a name that is a key
\* of the registry, or that another dial in flight carries, it still writes
\* the Datastore and issues one more dial; so two calls on one name can end
\* in two live sessions of that name (the witness).
C7_NoDuplicateCheck ==
    constructed =>
        \A c \in Credentials :
            (\/ c.network \in DOMAIN networks
             \/ \E sid \in Sids :
                    sessions[sid].transport = "dialing" /\ NameOf(sid) = c.network)
            => LET b == AddNetwork(Bouncer, c)
               IN /\ ~Raises(b)
                  /\ b.sessions = Append(sessions, Dialed(c))
                  /\ Count(b, "create_connection", c.network) = 1
                  /\ b.networks = networks
                  /\ datastore =>
                         /\ Count(b, "datastore.add_network", c.network) = 1
                         /\ b.redis.networks[c.network] = Dialed(c).credentials

\* C7 witness: two sessions of one name, both with an open transport.
C7_Witness ==
    \E s1, s2 \in Sids :
        /\ s1 < s2
        /\ NameOf(s1) = NameOf(s2)
        /\ Live(s1) /\ sessions[s1].connected
        /\ Live(s2) /\ sessions[s2].connected

\* The sessions of b, without their order of creation.
SessionSet(b) == {b.sessions[sid] : sid \in 1..Len(b.sessions)}

\* C8: with a Datastore holding N credentials records the constructor issues
\* exactly N dials, exactly one per stored name and with the stored
\* credentials, and the order in which the records are visited changes
\* nothing but the order of the dials.
C8_OneDialPerStoredRecord ==
    ~constructed /\ redisUp =>
        \A o1, o2 \in Orders(DOMAIN redis.networks) :
            LET b1 == Bouncer_init(Bouncer, TRUE, o1)
                b2 == Bouncer_init(Bouncer, TRUE, o2)
                N == Cardinality(DOMAIN redis.networks)
                dials == {i \in DOMAIN b1.ops : b1.ops[i].op = "create_connection"}
            IN /\ Len(b1.sessions) = N
               /\ Cardinality(dials) = N
               /\ \A n \in DOMAIN redis.networks :
                      /\ Count(b1, "create_connection", n) = 1
                      /\ Cardinality({sid \in 1..N :
                             b1.sessions[sid] =
                                 [credentials |-> redis.networks[n],
                                  connected |-> FALSE,
                                  transport |-> "dialing"]}) = 1
               /\ SessionSet(b1) = SessionSet(b2)
               /\ b1.redis = b2.redis
               /\ b1.networks = b2.networks
               /\ b1.clients = b2.clients

\* C8 witness: the constructor has reloaded two stored records: one dial in
\* flight for each, nothing else has happened since.
C8_Witness ==
    /\ constructed /\ datastore
    /\ DOMAIN redis.networks = NetworkNames
    /\ Len(sessions) = 2
    /\ \A n \in NetworkNames :
           \E sid \in Sids :
               sessions[sid] = [credentials |-> redis.networks[n],
                                connected |-> FALSE,
                                transport |-> "dialing"]

PersistenceOps ==
    {"datastore.get_password", "datastore.set_password", "datastore.get_networks",
     "datastore.add_network", "datastore.remove_network"}

\* What the callbacks the web interface and the sessions may run next leave.
Outcomes ==
    {AddHandler_post(Bouncer, form) : form \in Forms}
    \cup {EditHandler_post(Bouncer, n, form) : n \in NetworkNames, form \in Forms}
    \cup {DeleteHandler_get(Bouncer, n) : n \in NetworkNames}
    \cup {AddNetwork(Bouncer, c) : c \in Credentials}
    \cup {remove_network(Bouncer, n) : n \in NetworkNames}
    \cup {Network_connection_made(Bouncer, sid) :
              sid \in {x \in Sids : sessions[x].transport = "dialing"}}
    \cup {Network_connection_lost(Bouncer, sid) :
              sid \in {x \in Sids : sessions[x].transport \in {"closing", "broken"}}}

\* C9: when the startup ping fails the constructor does not fail and dials
\* nothing, persistence stays disabled from then on and no Datastore operation
\* is ever issued, while add_network still dials and remove_network still
\* closes the transport of a registered session.
C9_NoPersistenceAfterFailedPing ==
    ~redisUp =>
        /\ datastore = FALSE
        /\ ~constructed =>
               \A order \in Orders(DOMAIN redis.networks) :
                   LET b == Bouncer_init(Bouncer, redisUp, order)
                   IN /\ ~Raises(b)
                      /\ b.datastore = FALSE
                      /\ b.sessions = <<>>
                      /\ b.redis = redis
                      /\ \A i \in DOMAIN b.ops :
                             b.ops[i].op \notin PersistenceOps \cup {"create_connection"}
        /\ constructed =>
               /\ \A b \in Outcomes :
                      /\ b.datastore = FALSE
                      /\ b.redis = redis
                      /\ \A i \in DOMAIN b.ops : b.ops[i].op \notin PersistenceOps
               /\ \A c \in Credentials :
                      LET b == AddNetwork(Bouncer, c)
                      IN /\ Count(b, "create_connection", c.network) = 1
                         /\ b.sessions = Append(sessions, Dialed(c))
               /\ \A n \in DOMAIN networks :
                      LET b == remove_network(Bouncer, n)
                      IN /\ Count(b, "transport.close", n) = 1
                         /\ b.sessions[networks[n]].transport \in {"closing", "broken"}

\* C9 witness: without persistence a network was added, connected and
\* removed (its transport is closing) and another dial is in flight, while
\* Redis still holds what it held at startup.
C9_Witness ==
    /\ constructed /\ ~redisUp /\ ~datastore
    /\ \E s1, s2 \in Sids :
           /\ s1 \in removed /\ sessions[s1].transport = "closing"
           /\ sessions[s2].transport = "dialing"
    /\ DOMAIN redis.networks = NetworkNames
    /\ redis.password = NoPassword

\* The callback that runs in this step leaves b.
Step(b) == Fits(b) /\ Becomes(b)

AddsNetwork(b, network) == CallsOf(b, "add_network", network) # {}

\* C10: the web interface calls add_network, from the add page and from the
\* edit page, only when the name being added is no key of the registry at
\* that moment.
C10_InterfaceAddsOnlyUnregisteredNames ==
    [][constructed =>
           /\ \A form \in Forms :
                  LET b == AddHandler_post(Bouncer, form)
                  IN (Step(b) /\ ParseForm(form) = "ok" /\ AddsNetwork(b, form.networkname))
                     => form.networkname \notin DOMAIN networks
           /\ \A n \in NetworkNames, form \in Forms :
                  LET b == EditHandler_post(Bouncer, n, form)
                  IN (Step(b) /\ ParseForm(form) = "ok" /\ AddsNetwork(b, form.networkname))
                     => form.networkname \notin DOMAIN remove_network(Bouncer, n).networks
      ]_vars

\* C2 witness: a session dialed by add_network, registered, then removed: its
\* transport is closing and the Datastore holds no record of its name.
C2_Witness ==
    \E sid \in removed :
        /\ sessions[sid].transport = "closing"
        /\ datastore
        /\ NameOf(sid) \notin DOMAIN redis.networks

SetsPassword(b) == {i \in DOMAIN b.ops : b.ops[i].op = "datastore.set_password"}

\* C11: the constructor, with a Datastore, leaves a bouncer password stored;
\* it generates and stores one exactly when none was stored, and neither it
\* nor any later add_network, remove_network or other callback overwrites a
\* stored password.
C11_PasswordGeneratedOnceIfAbsent ==
    /\ ~constructed /\ redisUp =>
           \A order \in Orders(DOMAIN redis.networks) :
               LET b == Bouncer_init(Bouncer, redisUp, order)
               IN /\ b.redis.password # NoPassword
                  /\ Cardinality(SetsPassword(b)) =
                         IF redis.password = NoPassword THEN 1 ELSE 0
                  /\ redis.password # NoPassword => b.redis.password = redis.password
    /\ constructed /\ datastore => redis.password # NoPassword
    /\ constructed =>
           \A b \in Outcomes :
               /\ SetsPassword(b) = {}
               /\ b.redis.password = redis.password

\* C11 witness: the password an earlier run stored is still the stored one
\* after the constructor, an add_network and a remove_network.
C11_Witness ==
    /\ constructed /\ datastore
    /\ redis.password = "stored"
    /\ \E sid \in removed : sessions[sid].transport = "closing"

\* Every element of text is a Unicode scalar value.
IsText(text) ==
    \A i \in DOMAIN text :
        /\ 0 <= text[i] /\ text[i] <= 1114111
        /\ ~(55296 <= text[i] /\ text[i] <= 57343)

IsPrefix(s, t) == Len(s) <= Len(t) /\ SubSeq(t, 1, Len(s)) = s

\* C12: a normalize call on a text t and a terminator e returns t itself when
\* t ends with e and t followed by e otherwise; the result ends with e, it
\* starts with t unchanged (terminators inside t stay as they are), and
\* normalizing it again with e returns it unchanged.
C12_NormalizeAppendsOnceAtTheEnd ==
    framed.op = "normalize" =>
        LET t == framed.line
            e == framed.ending
            r == framed.result
        IN /\ normalize(r, e) = r
           /\ EndsWith(r, e)
           /\ IsPrefix(t, r)
           /\ EndsWith(t, e) => r = t
           /\ ~EndsWith(t, e) => r = t \o e

C12_Witness ==
    /\ framed.op = "normalize"
    /\ framed.line = <<13, 10, 13>>
    /\ framed.ending = CRLF
    /\ framed.result = <<13, 10, 13, 13, 10>>

\* The characters of all the arguments together.
RECURSIVE Characters(_)
Characters(args) ==
    IF args = <<>> THEN 0 ELSE Len(Head(args)) + Characters(Tail(args))

\* C13: a send call makes exactly one write to the transport; the bytes
\* written are the UTF-8 encoding of normalize applied to the arguments joined
\* by single spaces; they end with the bytes of the terminator, once, also
\* when an argument ends with the terminator or has one inside; decoding them
\* gives the normalized message back.
C13_SendWritesOneTerminatedLine ==
    framed.op = "send" =>
        LET args == framed.args
            written == framed.transport
            message == normalize(Join(args), CRLF)
            length == IF args = <<>> THEN 0 ELSE Characters(args) + Len(args) - 1
        IN /\ Len(written) = 1
           /\ written[1] = Utf8Encode(message)
           /\ EndsWith(written[1], CRLF)
           /\ decode(written[1]).text = message
           /\ IsPrefix(Join(args), message)
           /\ Len(message) \in {length, length + Len(CRLF)}
           /\ Len(message) = length <=> args # <<>> /\ EndsWith(args[Len(args)], CRLF)

C13_Witness ==
    /\ framed.op = "send"
    /\ framed.args = <<(<<13, 10, 97>>), (<<97, 13, 10>>)>>
    /\ framed.transport = <<(<<13, 10, 97, 32, 97, 13, 10>>)>>

\* C14: a decode call on a byte string b does not raise and returns a text;
\* when b is well-formed UTF-8 the text is its UTF-8 decoding (encoding the
\* text gives b back), and otherwise it is the Latin-1 decoding: one
\* character per byte of b, the i-th being the character numbered b[i].
C14_DecodeFallsBackAndNeverRaises ==
    framed.op = "decode" =>
        LET b == framed.line
            r == framed.result
        IN /\ ~r.raised
           /\ IsText(r.text)
           /\ Utf8Decode(b).ok =>
                  /\ r.text = Utf8Decode(b).text
                  /\ Utf8Encode(r.text) = b
           /\ ~Utf8Decode(b).ok =>
                  /\ Len(r.text) = Len(b)
                  /\ \A i \in DOMAIN b : r.text[i] = b[i]
                  /\ Utf8Encode(r.text) # b

C14_Witness ==
    /\ framed.op = "decode"
    /\ framed.line = <<195, 169, 233>>
    /\ ~framed.result.raised
    /\ framed.result.text = <<195, 169, 233>>

\* Where a network name is in its lifecycle: by its registry entry when it
\* has one, and otherwise by whether a dial for it is in flight.
Lifecycle(n) ==
    IF n \in DOMAIN networks
    THEN IF sessions[networks[n]].transport = "open" THEN "connected" ELSE "disconnected"
    ELSE IF \E sid \in Sids : sessions[sid].transport = "dialing" /\ NameOf(sid) = n
         THEN "connecting"
         ELSE "absent"

\* The steps of the state machine; a dial that fails takes the name back to
\* absent.
LifecycleSteps ==
    {<<"absent", "connecting">>, <<"connecting", "connected">>,
     <<"connected", "disconnected">>, <<"disconnected", "absent">>,
     <<"connecting", "absent">>}

\* C15: in every step, every network name either stays where it is in its
\* lifecycle or takes one step of absent -> connecting -> connected ->
\* disconnected -> absent; so a name whose registry entry is disconnected is
\* absent before it is connecting or connected again.
C15_LifecycleFollowsTheStateMachine ==
    [][\A n \in NetworkNames :
           \/ Lifecycle(n)' = Lifecycle(n)
           \/ <<Lifecycle(n), Lifecycle(n)'>> \in LifecycleSteps
      ]_vars

\* The sessions whose dial is in flight.
Dialing == {sid \in Sids : sessions[sid].transport = "dialing"}

\* C16: add_network returns with its dial in flight: it issues one
\* create_connection as its last step, the new session is neither connected
\* nor registered, and the registry, the clients and the other sessions are
\* as before.  No handler, add_network, remove_network, failed dial or
\* teardown adds a name to the registry; a failed dial dials nothing again
\* and changes nothing else; a name enters the registry in the
\* connection_made of its session, so every registered session was
\* established.
C16_AddNetworkFiresAndForgets ==
    constructed =>
        /\ \A c \in Credentials :
               LET b == AddNetwork(Bouncer, c)
                   new == Len(sessions) + 1
               IN /\ b.networks = networks
                  /\ b.clients = clients
                  /\ Len(b.sessions) = new
                  /\ SubSeq(b.sessions, 1, Len(sessions)) = sessions
                  /\ b.sessions[new].transport = "dialing"
                  /\ ~b.sessions[new].connected
                  /\ Count(b, "create_connection", c.network) = 1
                  /\ b.ops[Len(b.ops)].op = "create_connection"
        /\ \A b \in Outcomes \ {Network_connection_made(Bouncer, sid) : sid \in Dialing} :
               /\ DOMAIN b.networks \subseteq DOMAIN networks
               /\ b.clients = clients
        /\ \A sid \in Dialing :
               LET failed == dial_failed(Bouncer, sid)
                   made == Network_connection_made(Bouncer, sid)
               IN /\ failed.networks = networks
                  /\ failed.clients = clients
                  /\ failed.redis = redis
                  /\ failed.ops = <<>>
                  /\ Len(failed.sessions) = Len(sessions)
                  /\ \A other \in Sids \ {sid} : failed.sessions[other] = sessions[other]
                  /\ failed.sessions[sid].transport = "failed"
                  /\ made.networks[NameOf(sid)] = sid
                  /\ made.ops = <<>>
        /\ \A n \in DOMAIN networks :
               /\ NameOf(networks[n]) = n
               /\ sessions[networks[n]].transport \in {"open", "closing", "broken"}

\* C16 witness: one dial failed and another is in flight; the registry is
\* empty while the Datastore holds both names and a client is connected.
C16_Witness ==
    /\ constructed /\ datastore
    /\ networks = EmptyDict
    /\ DOMAIN redis.networks = NetworkNames
    /\ clients # {}
    /\ \E s1, s2 \in Sids :
           /\ sessions[s1].transport = "failed"
           /\ sessions[s2].transport = "dialing"

\* C17: an edit request calls remove_network with the old name and then
\* add_network with the form's settings, never in the other order; after the
\* request, with a Datastore, Redis holds a record for the form's name that
\* carries the form's nickname, ident and password and, when the form's
\* address is "host:port", that host and port, and it holds no record for
\* the old name when the form's name is another one.
C17_EditRemovesThenAdds ==
    [][\A old \in NetworkNames, form \in Forms :
           LET b == EditHandler_post(Bouncer, old, form)
               new == form.networkname
               removes == CallsOf(b, "remove_network", old)
               adds == CallsOf(b, "add_network", new)
               address == Split(form.networkaddress, ":")
           IN (constructed /\ Step(b)) =>
                  /\ removes # {} /\ adds # {}
                  /\ \A i \in removes, j \in adds : i < j
                  /\ datastore' =>
                         /\ new \in DOMAIN redis'.networks
                         /\ redis'.networks[new].nickname = form.nickname
                         /\ redis'.networks[new].username = form.ident
                         /\ redis'.networks[new].realname = form.ident
                         /\ "password" \in DOMAIN form =>
                                redis'.networks[new].password = form.password
                         /\ Len(address) = 2 =>
                                /\ redis'.networks[new].hostname = address[1]
                                /\ redis'.networks[new].port = address[2]
                         /\ new # old => old \notin DOMAIN redis'.networks
      ]_vars

\* C18: while Redis is up it holds a record for a name exactly when the last
\* of the add_network and remove_network calls made on the name (those of
\* the constructor's reload among them) was add_network, or the name was
\* stored at startup and no call was made on it; whatever became of the
\* dials and whether or not the name is registered.  The constructor leaves
\* the set of stored names as it found it.
C18_StoreMirrorsTheLastCall ==
    redisUp /\ calls.kept =>
        /\ \A n \in NetworkNames :
               n \in DOMAIN redis.networks
                   <=> \/ calls.last[n] = "add"
                       \/ calls.last[n] = "none" /\ n \in calls.snapshot
        /\ constructed => datastore
        /\ ~constructed =>
               \A order \in Orders(DOMAIN redis.networks) :
                   LET b == Bouncer_init(Bouncer, redisUp, order)
                   IN /\ DOMAIN b.redis.networks = DOMAIN redis.networks
                      /\ \A n \in DOMAIN redis.networks : Called(b).last[n] = "add"

\* C18 witness: freenode was stored at startup, its session registered and
\* was removed (the entry is still registered and closing, Redis has no
\* record of it); efnet was not stored at startup, was added and its dial
\* failed (Redis has its record and it is not registered).
C18_Witness ==
    /\ constructed /\ datastore /\ calls.kept
    /\ calls.snapshot = {"freenode"}
    /\ calls.last["freenode"] = "remove" /\ calls.last["efnet"] = "add"
    /\ DOMAIN redis.networks = {"efnet"}
    /\ DOMAIN networks = {"freenode"}
    /\ sessions[networks["freenode"]].transport = "closing"
    /\ \E sid \in Sids : sessions[sid].transport = "failed"

\* The callback that starts where b ended.
Next_callback(b) == [b EXCEPT !.ops = <<>>]

\* A request of the add page for form wrote the record of the form's name and
\* dialed it, once each, and left the registry as it was.
WroteAndDialed(before, b, form) ==
    LET n == form.networkname
        new == Len(before.sessions) + 1
    IN /\ Count(b, "create_connection", n) = 1
       /\ Len(b.sessions) = new
       /\ b.sessions[new].transport = "dialing"
       /\ b.sessions[new].credentials.network = n
       /\ b.sessions[new].credentials.hostname = Split(form.networkaddress, ":")[1]
       /\ b.networks = before.networks
       /\ before.datastore =>
              /\ Count(b, "datastore.add_network", n) = 1
              /\ b.redis.networks[n] = b.sessions[new].credentials

\* C19: when two add requests for one name, not a key of the registry, are
\* handled one after the other with no establishment in between, both pass
\* the guard and each writes the record and dials the name; so does an add
\* request for a name whose dial is in flight.  A request for a name that is
\* a key of the registry does neither.
C19_AddGuardMissesDialsInFlight ==
    constructed =>
        \A form1, form2 \in {f \in Forms : ParseForm(f) = "ok"} :
            LET n == form1.networkname
                b1 == AddHandler_post(Bouncer, form1)
                b2 == AddHandler_post(Next_callback(b1), form2)
            IN /\ (n \notin DOMAIN networks /\ form2.networkname = n) =>
                      /\ WroteAndDialed(Bouncer, b1, form1)
                      /\ WroteAndDialed(b1, b2, form2)
                      /\ Len(b2.sessions) = Len(sessions) + 2
               /\ (n \notin DOMAIN networks /\ \E sid \in Dialing : NameOf(sid) = n) =>
                      WroteAndDialed(Bouncer, b1, form1)
               /\ n \in DOMAIN networks =>
                      /\ b1.sessions = sessions
                      /\ b1.redis = redis
                      /\ Count(b1, "create_connection", n) = 0

\* C19 witness: nothing was stored at startup and two add requests for
\* freenode were handled before either dial completed: two dials of freenode to different hosts are in flight,
\* freenode is not registered, and Redis holds the record of the second.
C19_Witness ==
    /\ constructed /\ datastore
    /\ calls.kept /\ calls.snapshot = {}
    /\ "freenode" \notin DOMAIN networks
    /\ Len(sessions) = 2
    /\ \A sid \in Sids : sessions[sid].transport = "dialing" /\ NameOf(sid) = "freenode"
    /\ sessions[1].credentials.hostname = <<"a">>
    /\ sessions[2].credentials.hostname = <<"b">>
    /\ redis.networks["freenode"] = sessions[2].credentials

\* The record carries every field of c with c's value.
Carries(record, c) ==
    \A field \in DOMAIN c :
        /\ field \in DOMAIN record
        /\ record[field] = c[field]

\* C20: the credentials that add_network hands to the session it dials, and
\* with a Datastore writes to Redis, carry every field the call was given
\* with the same value: network, hostname, port, nickname, username,
\* realname, password and usermode.
C20_CredentialsCarryEveryField ==
    constructed =>
        \A c \in Credentials :
            LET b == AddNetwork(Bouncer, c)
            IN /\ Carries(b.sessions[Len(b.sessions)].credentials, c)
               /\ datastore => Carries(b.redis.networks[c.network], c)

====
